---- MODULE Spec2Model ----
(***************************************************************************)
(* Dynamic cluster-configuration distribution of k0s: the configPubSub     *)
(* broadcast primitive, the API-backed config sources and the cluster      *)
(* config reconciler loop.                                                 *)
(***************************************************************************)
EXTENDS Integers, Sequences, FiniteSets, TLC

\* ------------------------------------------------------------------ bounds
MaxPub == 2       \* configs handed over for publication (versions 1..MaxPub)
MaxSubs == 2      \* ResultChan calls (subscriber channels allocated)
MaxStops == 2     \* Stop calls
MaxFailures == 2  \* errors the watch meets
MaxRequests == 2  \* /status requests served

\* --------------------------------------------------------- program constants
ChanCap == 1      \* make(chan *v1beta1.ClusterConfig, 1)

\* A ClusterConfig: its metadata.resourceVersion and one field of its spec
\* ("" is the field's zero value).  Nil is the nil pointer.
Cfg(v, f) == [rv |-> v, net |-> f]
Nil == Cfg(0, "nil")
Versions == 1..MaxPub
ChanIds == 1..MaxSubs
NoProc == "none"

VARIABLES
    config,        \* configPubSub.config (Nil before the first updateConfig)
    subscribers,   \* configPubSub.subscribers, a sequence of channel ids
    chans,         \* every channel made so far: [buf, closed]
    nchan,         \* number of channels made
    mu,            \* configPubSub.mu: [w, readers]
    pc,            \* position of each caller
    idx,           \* loop index of a caller's range loop
    arg,           \* argument of the call in progress (config or channel id)
    ctxDone,       \* the context passed to notifySubscribers is cancelled
    panic,         \* runtime panic raised, "none" if none
    published,     \* history: value of every notifySubscribers pass, in order
    received,      \* history: values each channel's receiver has taken
    closes,        \* history: number of close() calls on each channel
    stops,         \* history: number of Stop calls that returned
    variant,       \* which apiConfigSource: "pubsub" (Start) or "chan" (Release)
    remote,        \* the remote ClusterConfig object: its successive states
    bootstrapConfig,      \* apiConfigSource.bootstrapConfig
    wpc,           \* position of the watch task
    cursor,        \* resource version the running watch has delivered up to
    lastObservedVersion,  \* the local of Start/Release (0 is "")
    retryAfter,    \* the delay the watch waits before starting over (0: none)
    dups,          \* history: an event with the last observed version came
    propagated,    \* error returned by watch.Until, "none" if none
    failures,      \* history: number of errors the watch has met
    rpc,           \* position of the reconciler's goroutine
    rch,           \* the channel the reconciler got from ResultChan (0: none yet)
    inflight,      \* the reconciliation passes under way: [cfg, stage, err]
    reconciled,    \* history: the configs handed to ComponentManager.Reconcile
    reports,       \* history: the reportStatus calls: [cfg, err, event, sink]
    initialConfig, \* ClusterConfigReconciler.initialConfig (Nil: none to store)
    isLeader,      \* what leaderElector.IsLeader() answers right now
    bpc,           \* position of ClusterConfigReconciler.Start before its goroutine
    pollLeader,    \* the answer of IsLeader() in the poll iteration under way
    storeCalls,    \* history: Create and Get calls of this node: [op, leader, res]
    startErr,      \* the error Start returned ("" for nil)
    ctl,           \* position of the controller's start ("none": not modelled)
    atStart,       \* history: the subscribers at the static source's Start call
    late,          \* history: the ResultChan calls made after a Stop: [ch, passes]
    deferred,      \* the controller's deferred calls, the last deferred first
    calls,         \* history: the calls the controller's start has made: [fn, ok]
    statusInformation,  \* Status.StatusInformation.ClusterConfig (Nil: nil)
    requests,      \* the /status requests being served: [id, at, line]
    responses      \* history: the /status responses: [at, end, code, cfg]

psVars == <<config, subscribers, chans, nchan, mu, pc, idx, arg, ctxDone,
            panic, published, received, closes, stops>>

apiVars == <<variant, remote, bootstrapConfig, wpc, cursor,
             lastObservedVersion, retryAfter, dups, propagated, failures>>

recVars == <<rpc, rch, inflight, reconciled, reports>>

bootVars == <<initialConfig, isLeader, bpc, pollLeader, storeCalls, startErr,
              ctl, atStart,
                   late, deferred, calls>>

statVars == <<statusInformation, requests, responses>>

vars == <<psVars, apiVars, recVars, bootVars, statVars>>

Procs == {"pub", "sub", "stp"}

\* ------------------------------------------------------------ sync.RWMutex
\* Lock(): take the writer mutex (which turns new readers away), then wait
\* for the active readers to leave.
LockAnnounce(p) == mu.w = NoProc /\ mu' = [mu EXCEPT !.w = p]
LockHeld(p) == mu.w = p /\ mu.readers = {}
Unlock(p) == mu' = [mu EXCEPT !.w = NoProc]
RLock(p) == mu.w = NoProc /\ mu' = [mu EXCEPT !.readers = @ \cup {p}]
RUnlock(p) == mu' = [mu EXCEPT !.readers = @ \ {p}]

\* ----------------------------------------------------------------- channels
NewChan == [buf |-> <<>>, closed |-> FALSE]
\* CanSend_Unbuffered: the channel made without its buffer (make(chan T)).
CanSend_Unbuffered(c) == Len(chans[c].buf) < ChanCap - 1
CanSend(c) == Len(chans[c].buf) < ChanCap
Send(c, v) == [chans EXCEPT ![c].buf = Append(@, v)]
Close(c) == [chans EXCEPT ![c].closed = TRUE]

\* The select of notifySubscribers has a default case: a full channel is
\* skipped instead of waited for.  SelectHasDefault_Blocking: a select
\* without the default case.
SelectHasDefault_Blocking == FALSE
SelectHasDefault == TRUE

\* ------------------------------------------------ configPubSub.updateConfig
\* p.config = config: the value updateConfig leaves in the field, given the
\* value it finds there.  StoreConfig_Once: only the first config is stored.
StoreConfig_Once(old, new) == IF old.rv = 0 THEN new ELSE old
StoreConfig(old, new) == new

\* The channels as updateConfig leaves them: it sends nothing.
\* UpdateConfigSends_Broadcast: the store also hands the value to every
\* subscriber with room in its buffer.
UpdateConfigSends_Broadcast(v) ==
    [c \in ChanIds |->
        IF (\E i \in 1..Len(subscribers) : subscribers[i] = c)
              /\ Len(chans[c].buf) < ChanCap
            THEN [chans[c] EXCEPT !.buf = Append(@, v)]
            ELSE chans[c]]
UpdateConfigSends(v) == chans

UpdateConfigCall(p, v) ==
    /\ pc[p] = "idle" /\ panic = "none"
    /\ pc' = [pc EXCEPT ![p] = "uc_lock"]
    /\ arg' = [arg EXCEPT ![p] = v]
    /\ UNCHANGED <<config, subscribers, chans, nchan, mu, idx, ctxDone, panic,
                   published, received, closes, stops>>

UpdateConfigLock(p) ==
    /\ pc[p] = "uc_lock"
    /\ LockAnnounce(p)
    /\ pc' = [pc EXCEPT ![p] = "uc_body"]
    /\ UNCHANGED <<config, subscribers, chans, nchan, idx, arg, ctxDone, panic,
                   published, received, closes, stops>>
    /\ UNCHANGED <<apiVars, statVars, recVars, bootVars>>

UpdateConfigBody(p) ==
    /\ pc[p] = "uc_body"
    /\ LockHeld(p)
    /\ config' = StoreConfig(config, arg[p])
    /\ chans' = UpdateConfigSends(arg[p])
    /\ Unlock(p)
    /\ pc' = [pc EXCEPT ![p] = "idle"]
    /\ UNCHANGED <<subscribers, nchan, idx, arg, ctxDone, panic,
                   published, received, closes, stops>>
    /\ UNCHANGED <<apiVars, statVars, recVars, bootVars>>

\* ------------------------------------------- configPubSub.notifySubscribers
NotifyCall(p) ==
    /\ pc[p] = "idle" /\ panic = "none"
    /\ Len(published) < MaxPub
    /\ pc' = [pc EXCEPT ![p] = "ns_rlock"]
    /\ published' = Append(published, config)
    /\ UNCHANGED <<config, subscribers, chans, nchan, mu, idx, arg, ctxDone,
                   panic, received, closes, stops>>

NotifyRLock(p) ==
    /\ pc[p] = "ns_rlock"
    /\ RLock(p)
    /\ pc' = [pc EXCEPT ![p] = "ns_loop"]
    /\ idx' = [idx EXCEPT ![p] = 1]
    /\ UNCHANGED <<config, subscribers, chans, nchan, arg, ctxDone, panic,
                   published, received, closes, stops>>
    /\ UNCHANGED <<apiVars, statVars, recVars, bootVars>>

\* One iteration of the range loop: the select picks any ready case, and the
\* default case only when no other is ready.
NotifyCtxDone(p) ==
    /\ pc[p] = "ns_loop" /\ idx[p] <= Len(subscribers)
    /\ ctxDone
    /\ RUnlock(p)
    /\ pc' = [pc EXCEPT ![p] = "idle"]
    /\ UNCHANGED <<config, subscribers, chans, nchan, idx, arg, ctxDone, panic,
                   published, received, closes, stops>>
    /\ UNCHANGED <<apiVars, statVars, recVars, bootVars>>

NotifySend(p) ==
    /\ pc[p] = "ns_loop" /\ idx[p] <= Len(subscribers)
    /\ LET c == subscribers[idx[p]] IN
        \/ /\ ~chans[c].closed /\ CanSend(c)
           /\ chans' = Send(c, config)
           /\ idx' = [idx EXCEPT ![p] = @ + 1]
           /\ UNCHANGED <<pc, panic, mu>>
        \/ /\ chans[c].closed
           /\ panic' = "send on closed channel"
           /\ pc' = [pc EXCEPT ![p] = "panicked"]
           /\ UNCHANGED <<chans, idx, mu>>
    /\ UNCHANGED <<config, subscribers, nchan, arg, ctxDone,
                   published, received, closes, stops>>
    /\ UNCHANGED <<apiVars, statVars, recVars, bootVars>>

\* Where the range loop goes on after a skipped subscriber: the next one.
\* AfterSkip_Stops: the pass given up at the first full buffer.
AfterSkip_Stops(i) == Len(subscribers) + 1
AfterSkip(i) == i + 1

NotifySkip(p) ==
    /\ pc[p] = "ns_loop" /\ idx[p] <= Len(subscribers)
    /\ SelectHasDefault
    /\ ~ctxDone
    /\ LET c == subscribers[idx[p]] IN ~chans[c].closed /\ ~CanSend(c)
    /\ idx' = [idx EXCEPT ![p] = AfterSkip(@)]
    /\ UNCHANGED <<config, subscribers, chans, nchan, mu, pc, arg, ctxDone,
                   panic, published, received, closes, stops>>
    /\ UNCHANGED <<apiVars, statVars, recVars, bootVars>>

NotifyReturn(p) ==
    /\ pc[p] = "ns_loop" /\ idx[p] > Len(subscribers)
    /\ RUnlock(p)
    /\ pc' = [pc EXCEPT ![p] = "idle"]
    /\ UNCHANGED <<config, subscribers, chans, nchan, idx, arg, ctxDone, panic,
                   published, received, closes, stops>>
    /\ UNCHANGED <<apiVars, statVars, recVars, bootVars>>

\* --------------------------------------------------- configPubSub.ResultChan
ResultChanCall(p) ==
    /\ pc[p] = "idle" /\ panic = "none"
    /\ nchan < MaxSubs
    /\ nchan' = nchan + 1
    /\ chans' = [chans EXCEPT ![nchan + 1] = NewChan]
    /\ arg' = [arg EXCEPT ![p] = nchan + 1]
    /\ pc' = [pc EXCEPT ![p] = "rc_lock"]
    /\ UNCHANGED <<config, subscribers, mu, idx, ctxDone, panic,
                   published, received, closes, stops>>

ResultChanLock(p) ==
    /\ pc[p] = "rc_lock"
    /\ LockAnnounce(p)
    /\ pc' = [pc EXCEPT ![p] = "rc_body"]
    /\ UNCHANGED <<config, subscribers, chans, nchan, idx, arg, ctxDone, panic,
                   published, received, closes, stops>>
    /\ UNCHANGED <<apiVars, statVars, recVars, bootVars>>

\* p.subscribers = append(p.subscribers, ch): the new channel goes last.
\* Subscribe_Front: the new channel put before the others.
Subscribe_Front(subs, c) == <<c>> \o subs
Subscribe(subs, c) == Append(subs, c)

ResultChanBody(p) ==
    /\ pc[p] = "rc_body"
    /\ LockHeld(p)
    /\ subscribers' = Subscribe(subscribers, arg[p])
    /\ Unlock(p)
    /\ pc' = [pc EXCEPT ![p] = "idle"]
    /\ UNCHANGED <<config, chans, nchan, idx, arg, ctxDone, panic,
                   published, received, closes, stops>>
    /\ UNCHANGED <<apiVars, statVars, recVars, bootVars>>

\* --------------------------------------------------------- configPubSub.Stop
StopCall(p) ==
    /\ pc[p] = "idle" /\ panic = "none"
    /\ stops < MaxStops
    /\ pc' = [pc EXCEPT ![p] = "st_lock"]
    /\ UNCHANGED <<config, subscribers, chans, nchan, mu, idx, arg, ctxDone,
                   panic, published, received, closes, stops>>

StopLock(p) ==
    /\ pc[p] = "st_lock"
    /\ LockAnnounce(p)
    /\ pc' = [pc EXCEPT ![p] = "st_close"]
    /\ idx' = [idx EXCEPT ![p] = 1]
    /\ UNCHANGED <<config, subscribers, chans, nchan, arg, ctxDone, panic,
                   published, received, closes, stops>>
    /\ UNCHANGED <<apiVars, statVars, recVars, bootVars>>

StopClose(p) ==
    /\ pc[p] = "st_close" /\ LockHeld(p)
    /\ idx[p] <= Len(subscribers)
    /\ LET c == subscribers[idx[p]] IN
        /\ closes' = [closes EXCEPT ![c] = @ + 1]
        /\ IF chans[c].closed
              THEN /\ panic' = "close of closed channel"
                   /\ pc' = [pc EXCEPT ![p] = "panicked"]
                   /\ UNCHANGED <<chans, idx>>
              ELSE /\ chans' = Close(c)
                   /\ idx' = [idx EXCEPT ![p] = @ + 1]
                   /\ UNCHANGED <<pc, panic>>
    /\ UNCHANGED <<config, subscribers, nchan, mu, arg, ctxDone,
                   published, received, stops>>
    /\ UNCHANGED <<apiVars, statVars, recVars, bootVars>>

\* Whether Stop forgets the channels it closed (p.subscribers = nil).
StopClears_Keeps == FALSE
StopClears == TRUE

StopReturn(p) ==
    /\ pc[p] = "st_close" /\ LockHeld(p)
    /\ idx[p] > Len(subscribers)
    /\ subscribers' = IF StopClears THEN <<>> ELSE subscribers
    /\ Unlock(p)
    /\ stops' = stops + 1
    /\ pc' = [pc EXCEPT ![p] = "idle"]
    /\ UNCHANGED <<config, chans, nchan, idx, arg, ctxDone, panic,
                   published, received, closes>>
    /\ UNCHANGED <<apiVars, statVars, recVars, bootVars>>

\* --------------------------------------------------------------- environment
\* A subscriber takes the buffered value off its channel.
Recv(c) ==
    /\ c <= nchan /\ chans[c].buf # <<>>
    /\ received' = [received EXCEPT ![c] = Append(@, Head(chans[c].buf))]
    /\ chans' = [chans EXCEPT ![c].buf = Tail(@)]
    /\ UNCHANGED <<config, subscribers, nchan, mu, pc, idx, arg, ctxDone, panic,
                   published, closes, stops>>
    /\ UNCHANGED <<apiVars, statVars, recVars, bootVars>>

Cancel ==
    /\ ~ctxDone
    /\ ctxDone' = TRUE
    /\ UNCHANGED <<config, subscribers, chans, nchan, mu, pc, idx, arg, panic,
                   published, received, closes, stops>>
    /\ UNCHANGED <<apiVars, statVars, recVars, bootVars>>

\* ------------------------------------------------- the pub/sub on its own
PSInit ==
    /\ config = Nil
    /\ subscribers = <<>>
    /\ chans = [c \in ChanIds |-> NewChan]
    /\ nchan = 0
    /\ mu = [w |-> NoProc, readers |-> {}]
    /\ pc = [p \in Procs |-> "idle"]
    /\ idx = [p \in Procs |-> 1]
    /\ arg = [p \in Procs |-> Nil]
    /\ ctxDone = FALSE
    /\ panic = "none"
    /\ published = <<>>
    /\ received = [c \in ChanIds |-> <<>>]
    /\ closes = [c \in ChanIds |-> 0]
    /\ stops = 0

APIIdle ==
    /\ variant = "none"
    /\ remote = <<>>
    /\ bootstrapConfig = Nil
    /\ wpc = "unstarted"
    /\ cursor = 0
    /\ lastObservedVersion = 0
    /\ retryAfter = 0
    /\ dups = FALSE
    /\ propagated = "none"
    /\ failures = 0

\* The reconciler built without an initial config to store: Start goes
\* straight to launching its goroutine.
BootIdle ==
    /\ initialConfig = Nil
    /\ isLeader = FALSE
    /\ bpc = "skipped"
    /\ pollLeader = FALSE
    /\ storeCalls = <<>>
    /\ startErr = ""
    /\ ctl = "none"
    /\ atStart = {}
    /\ late = {}
    /\ deferred = <<>> /\ calls = <<>>
    /\ statusInformation = Nil /\ requests = {} /\ responses = <<>>

RecIdle ==
    /\ rpc = "unstarted"
    /\ rch = 0
    /\ inflight = {}
    /\ reconciled = <<>>
    /\ reports = <<>>
    /\ BootIdle

Init == PSInit /\ APIIdle /\ RecIdle

Next ==
    \/ \E v \in Versions :
          /\ v = config.rv + 1 /\ UpdateConfigCall("pub", Cfg(v, ""))
          /\ UNCHANGED <<apiVars, statVars, recVars, bootVars>>
    \/ UpdateConfigLock("pub")
    \/ UpdateConfigBody("pub")
    \/ NotifyCall("pub") /\ UNCHANGED <<apiVars, statVars, recVars, bootVars>>
    \/ NotifyRLock("pub")
    \/ NotifyCtxDone("pub")
    \/ NotifySend("pub")
    \/ NotifySkip("pub")
    \/ NotifyReturn("pub")
    \/ ResultChanCall("sub") /\ UNCHANGED <<apiVars, statVars, recVars, bootVars>>
    \/ ResultChanLock("sub")
    \/ ResultChanBody("sub")
    \/ StopCall("stp") /\ UNCHANGED <<apiVars, statVars, recVars, bootVars>>
    \/ StopLock("stp")
    \/ StopClose("stp")
    \/ StopReturn("stp")
    \/ \E c \in ChanIds : Recv(c)
    \/ Cancel

Spec == Init /\ [][Next]_vars

\* ------------------------- the pub/sub with its late subscribers kept track of
\* A ResultChan call, which is noted as late when a Stop call has returned
\* before it began, with its channel and the number of notifySubscribers
\* calls made until then.
ResultChanCallNoted(p) ==
    /\ ResultChanCall(p)
    /\ late' = IF stops > 0
                  THEN late \cup {[ch |-> nchan + 1, passes |-> Len(published)]}
                  ELSE late
    /\ UNCHANGED <<initialConfig, isLeader, bpc, pollLeader, storeCalls,
                   startErr, ctl, atStart, deferred, calls>>
    /\ UNCHANGED <<apiVars, statVars, recVars>>

LateNext ==
    \/ \E v \in Versions :
          /\ v = config.rv + 1 /\ UpdateConfigCall("pub", Cfg(v, ""))
          /\ UNCHANGED <<apiVars, statVars, recVars, bootVars>>
    \/ UpdateConfigLock("pub")
    \/ UpdateConfigBody("pub")
    \/ NotifyCall("pub") /\ UNCHANGED <<apiVars, statVars, recVars, bootVars>>
    \/ NotifyRLock("pub")
    \/ NotifyCtxDone("pub")
    \/ NotifySend("pub")
    \/ NotifySkip("pub")
    \/ NotifyReturn("pub")
    \/ ResultChanCallNoted("sub")
    \/ ResultChanLock("sub")
    \/ ResultChanBody("sub")
    \/ StopCall("stp") /\ UNCHANGED <<apiVars, statVars, recVars, bootVars>>
    \/ StopLock("stp")
    \/ StopClose("stp")
    \/ StopReturn("stp")
    \/ \E c \in ChanIds : Recv(c)
    \/ Cancel

SpecLate == Init /\ [][LateNext]_vars

\* ======================================================= apiConfigSource
RetryAfterSeconds == 10   \* retryAfter := 10 * time.Second
ServerRetryAfter == 1     \* the delay watch.IsRetryable derives from a transient error

ResultChanId == 1         \* the channel of the "chan" variant's resultChan field
Last(q) == q[Len(q)]

\* watch.IsRetryable: whether a watch error is transient.
IsRetryable(kind) == kind = "transient"

\* The error callback handed to the watch: the delay before starting over and
\* the error to give up with ("none": keep watching).
\* ErrorCallback_GivesUp: a callback that hands a non-retryable error back.
ErrorCallback_GivesUp(kind) ==
    IF IsRetryable(kind)
        THEN [retryAfter |-> ServerRetryAfter, err |-> "none"]
        ELSE [retryAfter |-> RetryAfterSeconds, err |-> kind]
ErrorCallback(kind) ==
    IF IsRetryable(kind)
        THEN [retryAfter |-> ServerRetryAfter, err |-> "none"]
        ELSE [retryAfter |-> RetryAfterSeconds, err |-> "none"]

\* "Push changes only when the config actually changes".
\* VersionChanged_Always: the comparison left out.
VersionChanged_Always(cfg) == TRUE
VersionChanged(cfg) == lastObservedVersion # cfg.rv

\* mergo.Merge(dst, src) without options: src fills the fields dst leaves at
\* their zero value, and overrides none that dst sets.
Merge(dst, src) ==
    [rv |-> IF dst.rv = 0 THEN src.rv ELSE dst.rv,
     net |-> IF dst.net = "" THEN src.net ELSE dst.net]

\* lastObservedVersion = cfg.ResourceVersion.
\* NextObservedVersion_Stale: the assignment left out.
NextObservedVersion_Stale(cfg) == lastObservedVersion
NextObservedVersion(cfg) == cfg.rv

\* The condition function handed to watch.Until, up to its first call into the
\* pub/sub (variant "pubsub") or its send on resultChan (variant "chan").
Condition(cfg) ==
    IF VersionChanged(cfg)
        THEN /\ lastObservedVersion' = NextObservedVersion(cfg)
             /\ UNCHANGED dups
             /\ IF variant = "pubsub"
                   THEN /\ UpdateConfigCall("pub", cfg)
                        /\ wpc' = "updating"
                   ELSE /\ arg' = [arg EXCEPT !["pub"] = Merge(cfg, bootstrapConfig)]
                        /\ wpc' = "sending"
                        /\ UNCHANGED <<config, subscribers, chans, nchan, mu, pc,
                                       idx, ctxDone, panic, published, received,
                                       closes, stops>>
        ELSE /\ dups' = TRUE
             /\ wpc' = "watch"
             /\ UNCHANGED <<lastObservedVersion, psVars>>

\* The watch meets an error and asks the error callback what to do.
WatchFails(kind) ==
    LET r == ErrorCallback(kind) IN
        IF r.err = "none"
            THEN wpc' = "backoff" /\ retryAfter' = r.retryAfter
                 /\ UNCHANGED propagated
            ELSE wpc' = "exited" /\ propagated' = r.err /\ UNCHANGED retryAfter

\* Start / Release: the watch is built and its goroutine launched.
APIStart ==
    /\ wpc = "unstarted"
    /\ wpc' = "list"
    /\ UNCHANGED <<statVars, variant, failures, remote, bootstrapConfig, cursor,
                   lastObservedVersion,
                   retryAfter, dups, propagated, psVars>>
    /\ UNCHANGED <<recVars, bootVars>>

\* watch.Until starts over: it lists the object as it is now and hands it to
\* the condition, then watches from there.
WatchList ==
    /\ wpc = "list" /\ ~ctxDone /\ panic = "none"
    /\ cursor' = Len(remote)
    /\ IF remote = <<>>
          THEN wpc' = "watch" /\ UNCHANGED <<lastObservedVersion, dups, psVars>>
          ELSE Condition(Last(remote))
    /\ UNCHANGED <<statVars, variant, failures, remote, bootstrapConfig, retryAfter, propagated>>
    /\ UNCHANGED <<recVars, bootVars>>

\* The running watch delivers the next change of the object.
WatchEvent ==
    /\ wpc = "watch" /\ ~ctxDone /\ panic = "none"
    /\ cursor < Len(remote)
    /\ cursor' = cursor + 1
    /\ Condition(remote[cursor + 1])
    /\ UNCHANGED <<statVars, variant, failures, remote, bootstrapConfig, retryAfter, propagated>>
    /\ UNCHANGED <<recVars, bootVars>>

WatchError(kind) ==
    /\ wpc \in {"list", "watch"} /\ ~ctxDone /\ panic = "none"
    /\ failures < MaxFailures
    /\ failures' = failures + 1
    /\ WatchFails(kind)
    /\ UNCHANGED <<statVars, variant, remote, bootstrapConfig, cursor, lastObservedVersion,
                   dups, psVars>>
    /\ UNCHANGED <<recVars, bootVars>>

\* lastObservedVersion is a local of Start/Release, declared outside the
\* condition: the watch starting over finds it as the last call left it.
\* VersionAfterRestart_Reset: a variable that starts afresh with the watch.
VersionAfterRestart_Reset == Nil.rv
VersionAfterRestart == lastObservedVersion

BackoffElapsed ==
    /\ wpc = "backoff" /\ ~ctxDone
    /\ wpc' = "list"
    /\ retryAfter' = 0
    /\ lastObservedVersion' = VersionAfterRestart
    /\ UNCHANGED <<statVars, variant, failures, remote, bootstrapConfig, cursor,
                   dups, propagated, psVars>>
    /\ UNCHANGED <<recVars, bootVars>>

\* watch.Until returns once its context is done.
WatchCtxDone ==
    /\ wpc \in {"list", "watch", "backoff"} /\ ctxDone
    /\ wpc' = "exited"
    /\ UNCHANGED <<statVars, variant, failures, remote, bootstrapConfig, cursor,
                   lastObservedVersion,
                   retryAfter, dups, propagated, psVars>>
    /\ UNCHANGED <<recVars, bootVars>>

\* variant "pubsub": a.updateConfig(cfg) has returned, a.notifySubscribers(ctx).
ConditionNotify ==
    /\ wpc = "updating"
    /\ NotifyCall("pub")
    /\ wpc' = "notifying"
    /\ UNCHANGED <<statVars, variant, failures, remote, bootstrapConfig, cursor,
                   lastObservedVersion,
                   retryAfter, dups, propagated>>
    /\ UNCHANGED <<recVars, bootVars>>

\* The condition returns (false, nil): the watch goes on.
ConditionReturn ==
    /\ wpc = "notifying" /\ pc["pub"] = "idle"
    /\ wpc' = "watch"
    /\ UNCHANGED <<statVars, variant, failures, remote, bootstrapConfig, cursor,
                   lastObservedVersion,
                   retryAfter, dups, propagated, psVars>>
    /\ UNCHANGED <<recVars, bootVars>>

\* variant "chan": a.resultChan <- cfg, which waits for room in the buffer and
\* panics on a closed channel.
ConditionSend ==
    /\ wpc = "sending" /\ panic = "none"
    /\ IF chans[ResultChanId].closed
          THEN /\ panic' = "send on closed channel"
               /\ wpc' = "panicked"
               /\ UNCHANGED <<chans, published>>
          ELSE /\ CanSend(ResultChanId)
               /\ chans' = Send(ResultChanId, arg["pub"])
               /\ published' = Append(published, arg["pub"])
               /\ wpc' = "watch"
               /\ UNCHANGED panic
    /\ UNCHANGED <<config, subscribers, nchan, mu, pc, idx, arg, ctxDone,
                   received, closes, stops>>
    /\ UNCHANGED <<statVars, variant, failures, remote, bootstrapConfig, cursor,
                   lastObservedVersion,
                   retryAfter, dups, propagated>>
    /\ UNCHANGED <<recVars, bootVars>>

\* variant "chan": Stop closes resultChan whenever the field is not nil; its
\* value receiver never changes the field.
StopResultChan ==
    /\ variant = "chan" /\ panic = "none"
    /\ wpc # "unstarted"
    /\ stops < MaxStops
    /\ closes' = [closes EXCEPT ![ResultChanId] = @ + 1]
    /\ IF chans[ResultChanId].closed
          THEN /\ panic' = "close of closed channel"
               /\ UNCHANGED <<chans, stops>>
          ELSE /\ chans' = Close(ResultChanId)
               /\ stops' = stops + 1
               /\ UNCHANGED panic
    /\ UNCHANGED <<config, subscribers, nchan, mu, pc, idx, arg, ctxDone,
                   published, received>>
    /\ UNCHANGED <<apiVars, statVars, recVars, bootVars>>

\* Somebody edits the remote object: a new state with the next version.
RemoteEdit(f) ==
    /\ Len(remote) < MaxPub
    /\ remote' = Append(remote, Cfg(Len(remote) + 1, f))
    /\ UNCHANGED <<statVars, variant, failures, bootstrapConfig, wpc, cursor,
                   lastObservedVersion,
                   retryAfter, dups, propagated, psVars>>
    /\ UNCHANGED <<recVars, bootVars>>

APIInit ==
    /\ variant \in {"pubsub", "chan"}
    /\ config = Nil
    /\ subscribers = <<>>
    /\ chans = [c \in ChanIds |-> NewChan]
    /\ nchan = IF variant = "chan" THEN 1 ELSE 0
    /\ mu = [w |-> NoProc, readers |-> {}]
    /\ pc = [p \in Procs |-> "idle"]
    /\ idx = [p \in Procs |-> 1]
    /\ arg = [p \in Procs |-> Nil]
    /\ ctxDone = FALSE
    /\ panic = "none"
    /\ published = <<>>
    /\ received = [c \in ChanIds |-> <<>>]
    /\ closes = [c \in ChanIds |-> 0]
    /\ stops = 0
    /\ remote = <<>>
    /\ bootstrapConfig \in
          IF variant = "chan" THEN {Cfg(0, ""), Cfg(0, "boot")} ELSE {Cfg(0, "")}
    /\ wpc = "unstarted"
    /\ cursor = 0
    /\ lastObservedVersion = 0
    /\ retryAfter = 0
    /\ dups = FALSE
    /\ propagated = "none"
    /\ failures = 0
    /\ RecIdle

APINext ==
    \/ APIStart
    \/ WatchList
    \/ WatchEvent
    \/ \E kind \in {"transient", "fatal"} : WatchError(kind)
    \/ BackoffElapsed
    \/ WatchCtxDone
    \/ ConditionNotify
    \/ ConditionReturn
    \/ ConditionSend
    \/ StopResultChan
    \/ \E f \in {"", "remote"} : RemoteEdit(f)
    \/ UpdateConfigLock("pub")
    \/ UpdateConfigBody("pub")
    \/ NotifyRLock("pub")
    \/ NotifyCtxDone("pub")
    \/ NotifySend("pub")
    \/ NotifySkip("pub")
    \/ NotifyReturn("pub")
    \/ /\ variant = "pubsub" /\ nchan = 0
       /\ ResultChanCall("sub") /\ UNCHANGED <<apiVars, statVars, recVars, bootVars>>
    \/ ResultChanLock("sub")
    \/ ResultChanBody("sub")
    \/ /\ variant = "pubsub" /\ wpc # "unstarted"
       /\ StopCall("stp") /\ UNCHANGED <<apiVars, statVars, recVars, bootVars>>
    \/ StopLock("stp")
    \/ StopClose("stp")
    \/ StopReturn("stp")
    \/ \E c \in ChanIds : Recv(c)
    \/ Cancel

SpecAPI == APIInit /\ [][APINext]_vars

\* ================================================ ClusterConfigReconciler
\* cfg.ValidationError(): the validation error's text, "" for none.
ValidationError(cfg) == IF cfg.net = "invalid" THEN "invalid network" ELSE ""

\* Event_AlwaysSuccess: the if reconcileError != nil branch left out.
Event_AlwaysSuccess(cfg, err) ==
    [rv |-> cfg.rv,
     reason |-> "SuccessfulReconcile",
     message |-> "Successfully reconciled cluster config"]

\* The event reportStatus builds for a config and its reconcile error.
Event(cfg, err) ==
    [rv |-> cfg.rv,
     reason |-> IF err # "" THEN "FailedReconciling" ELSE "SuccessfulReconcile",
     message |-> IF err # "" THEN err ELSE "Successfully reconciled cluster config"]

\* The events the sink has stored.
Events == SelectSeq(reports, LAMBDA r : r.sink = "created")

\* The for loop is at its select: the body of the previous iteration, with
\* its Reconcile call and its status report, has returned.
\* LoopAtSelect_Spawned: every received config handled in a goroutine of its own.
LoopAtSelect_Spawned == rpc = "loop"
LoopAtSelect == rpc = "loop" /\ inflight = {}

\* Whether the loop body calls Reconcile for a config with this validation
\* error.  ReconcilesWhen_Always: the err == nil test left out.
ReconcilesWhen_Always(err) == TRUE
ReconcilesWhen(err) == err = ""

\* ------------------------------------------- Start: the startup protocol
\* errors.IsAlreadyExists(err).
\* IsAlreadyExists_Never: a conflict on creation treated like any other error.
IsAlreadyExists_Never(res) == FALSE
IsAlreadyExists(res) == res = "already exists"

\* Whether a poll iteration calls createClusterConfig, given what IsLeader()
\* answered in it.  CreatesWhen_Always: every node tries to create.
CreatesWhen_Always(leader) == TRUE
CreatesWhen(leader) == leader

\* What the remote store can answer to Create and to Get.
CreateResults ==
    IF remote = <<>> THEN {"created", "unavailable"}
                     ELSE {"already exists", "unavailable"}
GetResults ==
    IF remote = <<>> THEN {"not found", "unavailable"}
                     ELSE {"found", "unavailable"}

\* The (done, err) the poll condition returns after createClusterConfig and
\* after clusterConfigExists.
CreateCondition(res) ==
    IF res = "created" \/ IsAlreadyExists(res)
        THEN [done |-> TRUE, err |-> ""]
        ELSE [done |-> FALSE, err |-> res]
ExistsCondition(res) ==
    IF res = "found" THEN [done |-> TRUE, err |-> ""]
                     ELSE [done |-> FALSE, err |-> res]

\* wait.PollImmediateWithContext after a call of its condition: an error ends
\* the poll with that error, done ends it with nil, and (false, nil) makes it
\* wait for the next interval.
PollStep(r) ==
    IF r.err # "" THEN "failed" ELSE IF r.done THEN "succeeded" ELSE "wait"

\* Start has reached its go statement: there was no initial config to store,
\* or the poll returned nil.
\* StartProceeds_Always: the error of the poll ignored.
StartProceeds_Always == TRUE
StartProceeds == bpc \in {"skipped", "succeeded"}

\* if r.initialConfig != nil: whether Start has a seed config to store.
\* HasInitialConfig_Always: the test left out.
HasInitialConfig_Always(ic) == TRUE
HasInitialConfig(ic) == ic # Nil

\* Start is called: if r.initialConfig != nil the poll runs its condition at
\* once.
BootStart ==
    /\ bpc = "unstarted"
    /\ bpc' = IF HasInitialConfig(initialConfig) THEN "condition" ELSE "skipped"
    /\ UNCHANGED <<initialConfig, isLeader, pollLeader, storeCalls, startErr,
                   ctl, atStart,
                   late, deferred, calls>>
    /\ UNCHANGED <<psVars, apiVars, statVars, rpc, rch, inflight, reconciled, reports>>

\* if r.leaderElector.IsLeader()
BootIsLeader ==
    /\ bpc = "condition"
    /\ pollLeader' = isLeader
    /\ bpc' = IF CreatesWhen(isLeader) THEN "create" ELSE "get"
    /\ UNCHANGED <<initialConfig, isLeader, storeCalls, startErr, ctl, atStart,
                   late, deferred, calls>>
    /\ UNCHANGED <<psVars, apiVars, statVars, rpc, rch, inflight, reconciled, reports>>

\* err = r.createClusterConfig(ctx), and the condition's return.
BootCreate(res) ==
    /\ bpc = "create"
    /\ res \in CreateResults
    /\ remote' = IF res = "created" THEN <<Cfg(1, initialConfig.net)>> ELSE remote
    /\ storeCalls' = Append(storeCalls,
                        [op |-> "Create", leader |-> pollLeader, res |-> res])
    /\ LET r == CreateCondition(res) IN
            bpc' = PollStep(r) /\ startErr' = r.err
    /\ UNCHANGED <<initialConfig, isLeader, pollLeader, ctl, atStart,
                   late, deferred, calls>>
    /\ UNCHANGED <<statVars, variant, failures, bootstrapConfig, wpc, cursor,
                   lastObservedVersion,
                   retryAfter, dups, propagated>>
    /\ UNCHANGED <<psVars, rpc, rch, inflight, reconciled, reports>>

\* err = r.clusterConfigExists(ctx), and the condition's return.
BootGet(res) ==
    /\ bpc = "get"
    /\ res \in GetResults
    /\ storeCalls' = Append(storeCalls,
                        [op |-> "Get", leader |-> pollLeader, res |-> res])
    /\ LET r == ExistsCondition(res) IN
            bpc' = PollStep(r) /\ startErr' = r.err
    /\ UNCHANGED <<initialConfig, isLeader, pollLeader, ctl, atStart,
                   late, deferred, calls>>
    /\ UNCHANGED <<psVars, apiVars, statVars, rpc, rch, inflight, reconciled, reports>>

\* The leader election moves on: this node gains or loses the lease.  Start
\* asks IsLeader() only inside its poll, so lease changes count until the poll
\* has ended.
LeaderChange ==
    /\ bpc \in {"unstarted", "condition", "create", "get"}
    /\ isLeader' = ~isLeader
    /\ UNCHANGED <<initialConfig, bpc, pollLeader, storeCalls, startErr, ctl,
                   atStart,
                   late, deferred, calls>>
    /\ UNCHANGED <<psVars, apiVars, statVars, rpc, rch, inflight, reconciled, reports>>

\* defer f(): the deferred calls run last deferred first.
\* Defer_FIFO: the deferred calls run in the order they were deferred.
Defer_FIFO(stack, f) == Append(stack, f)
Defer(stack, f) == <<f>> \o stack

Call(fn, ok) == [fn |-> fn, ok |-> ok]

\* The controller: clusterComponents.Start failed, start returns the error.
ControllerAbort ==
    /\ ctl = "starting" /\ bpc = "failed"
    /\ ctl' = "aborted"
    /\ calls' = Append(calls, Call("clusterComponents.Start", FALSE))
    /\ UNCHANGED <<initialConfig, isLeader, bpc, pollLeader, storeCalls,
                   startErr, atStart, late, deferred>>
    /\ UNCHANGED <<psVars, apiVars, statVars, rpc, rch, inflight, reconciled, reports>>

\* The controller: the components are started, their Stop is deferred, and
\* go configSource.Release(ctx).
ControllerRelease ==
    /\ ctl = "starting" /\ StartProceeds
    /\ ctl' = "running"
    /\ deferred' = Defer(deferred, "clusterComponents.Stop")
    /\ calls' = calls \o <<Call("clusterComponents.Start", TRUE),
                           Call("configSource.Release", TRUE)>>
    /\ UNCHANGED <<initialConfig, isLeader, bpc, pollLeader, storeCalls,
                   startErr, atStart, late>>
    /\ UNCHANGED <<psVars, apiVars, statVars, rpc, rch, inflight, reconciled, reports>>

\* The controller creates the config source and defers its Stop, or returns
\* the constructor's error.
NewConfigSource(ok) ==
    /\ ctl = "create"
    /\ calls' = Append(calls, Call("NewConfigSource", ok))
    /\ IF ok THEN /\ ctl' = "assemble"
                  /\ deferred' = Defer(deferred, "configSource.Stop")
             ELSE /\ ctl' = "returning"
                  /\ UNCHANGED deferred
    /\ UNCHANGED <<initialConfig, isLeader, bpc, pollLeader, storeCalls,
                   startErr, atStart, late>>
    /\ UNCHANGED <<psVars, apiVars, statVars, recVars>>

\* The cluster components are built and added; a constructor that fails
\* makes start return its error.
AddComponents(ok) ==
    /\ ctl = "assemble"
    /\ ctl' = IF ok THEN "init" ELSE "returning"
    /\ UNCHANGED <<initialConfig, isLeader, bpc, pollLeader, storeCalls,
                   startErr, atStart, late, deferred, calls>>
    /\ UNCHANGED <<psVars, apiVars, statVars, recVars>>

\* if err := c.clusterComponents.Init(ctx); err != nil { return err }
ClusterInit(ok) ==
    /\ ctl = "init"
    /\ calls' = Append(calls, Call("clusterComponents.Init", ok))
    /\ ctl' = IF ok THEN "starting" ELSE "returning"
    /\ UNCHANGED <<initialConfig, isLeader, bpc, pollLeader, storeCalls,
                   startErr, atStart, late, deferred>>
    /\ UNCHANGED <<psVars, apiVars, statVars, recVars>>

\* <-ctx.Done(), then return nil.
ControllerShutdown ==
    /\ ctl = "running" /\ ctxDone
    /\ ctl' = "returning"
    /\ UNCHANGED <<initialConfig, isLeader, bpc, pollLeader, storeCalls,
                   startErr, atStart, late, deferred, calls>>
    /\ UNCHANGED <<psVars, apiVars, statVars, recVars>>

\* start returns: the next deferred call runs, once the one before it has
\* returned.  configSource.Stop() is the Stop of the pub/sub.
RunDeferred ==
    /\ ctl \in {"aborted", "returning"}
    /\ deferred # <<>> /\ pc["stp"] = "idle"
    /\ calls' = Append(calls, Call(Head(deferred), TRUE))
    /\ deferred' = Tail(deferred)
    /\ IF Head(deferred) = "configSource.Stop"
          THEN StopCall("stp")
          ELSE UNCHANGED psVars
    /\ UNCHANGED <<initialConfig, isLeader, bpc, pollLeader, storeCalls,
                   startErr, ctl, atStart, late>>
    /\ UNCHANGED <<apiVars, statVars, recVars>>

\* Every deferred call has returned, and so does start.
ControllerReturn ==
    /\ ctl \in {"aborted", "returning"}
    /\ deferred = <<>> /\ pc["stp"] = "idle"
    /\ ctl' = "returned"
    /\ UNCHANGED <<initialConfig, isLeader, bpc, pollLeader, storeCalls,
                   startErr, atStart, late, deferred, calls>>
    /\ UNCHANGED <<psVars, apiVars, statVars, recVars>>

\* Start launches the goroutine, which first subscribes:
\* ch := r.configSource.ResultChan().
RecStart ==
    /\ rpc = "unstarted"
    /\ StartProceeds
    /\ ResultChanCall("sub")
    /\ rpc' = "subscribing"
    /\ UNCHANGED <<rch, inflight, reconciled, reports, apiVars, statVars, bootVars>>

RecSubscribed ==
    /\ rpc = "subscribing" /\ pc["sub"] = "idle"
    /\ rch' = arg["sub"]
    /\ rpc' = "loop"
    /\ UNCHANGED <<inflight, reconciled, reports, psVars, apiVars, statVars, bootVars>>

\* case cfg, ok := <-ch with a value.
RecReceive ==
    /\ LoopAtSelect
    /\ chans[rch].buf # <<>>
    /\ LET cfg == Head(chans[rch].buf) IN
        /\ inflight' = inflight \cup {[cfg |-> cfg, stage |-> "validate", err |-> ""]}
        /\ received' = [received EXCEPT ![rch] = Append(@, cfg)]
    /\ chans' = [chans EXCEPT ![rch].buf = Tail(@)]
    /\ UNCHANGED <<config, subscribers, nchan, mu, pc, idx, arg, ctxDone, panic,
                   published, closes, stops>>
    /\ UNCHANGED <<rpc, rch, reconciled, reports, apiVars, statVars, bootVars>>

\* case cfg, ok := <-ch on the closed, drained channel: !ok, return.
RecClosed ==
    /\ LoopAtSelect
    /\ chans[rch].buf = <<>> /\ chans[rch].closed
    /\ rpc' = "returned"
    /\ UNCHANGED <<rch, inflight, reconciled, reports, psVars, apiVars, statVars, bootVars>>

\* case <-ctx.Done(): return.
RecCtxDone ==
    /\ LoopAtSelect
    /\ ctxDone
    /\ rpc' = "returned"
    /\ UNCHANGED <<rch, inflight, reconciled, reports, psVars, apiVars, statVars, bootVars>>

\* err := cfg.ValidationError()
RecValidate(p) ==
    /\ p \in inflight /\ p.stage = "validate"
    /\ LET err == ValidationError(p.cfg) IN
        inflight' = (inflight \ {p}) \cup
            {[cfg |-> p.cfg,
              stage |-> IF ReconcilesWhen(err) THEN "reconcile" ELSE "report",
              err |-> err]}
    /\ UNCHANGED <<rpc, rch, reconciled, reports, psVars, apiVars, statVars, bootVars>>

\* err = r.ComponentManager.Reconcile(ctx, cfg), which succeeds or fails.
RecReconcile(p, err) ==
    /\ p \in inflight /\ p.stage = "reconcile"
    /\ reconciled' = Append(reconciled, p.cfg)
    /\ inflight' = (inflight \ {p}) \cup
            {[cfg |-> p.cfg, stage |-> "report", err |-> err]}
    /\ UNCHANGED <<rpc, rch, reports, psVars, apiVars, statVars, bootVars>>

\* r.reportStatus(statusCtx, cfg, err): the event is built and handed to the
\* sink.  sink is how that went: "created", "create failed" (logged), or
\* "no client" (GetClient failed, logged, and the nil client is used).
RecReport(p, sink) ==
    /\ p \in inflight /\ p.stage = "report"
    /\ panic = "none"
    /\ reports' = Append(reports,
            [cfg |-> p.cfg, err |-> p.err, event |-> Event(p.cfg, p.err),
             sink |-> sink])
    /\ IF sink = "no client"
          THEN /\ panic' = "nil pointer dereference"
               /\ rpc' = "panicked"
               /\ UNCHANGED inflight
          ELSE /\ inflight' = inflight \ {p}
               /\ UNCHANGED <<panic, rpc>>
    /\ UNCHANGED <<config, subscribers, chans, nchan, mu, pc, idx, arg, ctxDone,
                   published, received, closes, stops>>
    /\ UNCHANGED <<rch, reconciled, apiVars, statVars, bootVars>>

RecInit == PSInit /\ APIIdle /\ RecIdle

RecNext ==
    \/ \E v \in Versions, f \in {"", "invalid"} :
          /\ v = config.rv + 1 /\ UpdateConfigCall("pub", Cfg(v, f))
          /\ UNCHANGED <<apiVars, statVars, recVars, bootVars>>
    \/ UpdateConfigLock("pub")
    \/ UpdateConfigBody("pub")
    \/ NotifyCall("pub") /\ UNCHANGED <<apiVars, statVars, recVars, bootVars>>
    \/ NotifyRLock("pub")
    \/ NotifyCtxDone("pub")
    \/ NotifySend("pub")
    \/ NotifySkip("pub")
    \/ NotifyReturn("pub")
    \/ RecStart
    \/ ResultChanLock("sub")
    \/ ResultChanBody("sub")
    \/ RecSubscribed
    \/ RecReceive
    \/ RecClosed
    \/ RecCtxDone
    \/ \E p \in inflight : RecValidate(p)
    \/ \E p \in inflight, err \in {"", "reconcile failed"} : RecReconcile(p, err)
    \/ \E p \in inflight, sink \in {"created", "create failed", "no client"} :
          RecReport(p, sink)
    \/ StopCall("stp") /\ UNCHANGED <<apiVars, statVars, recVars, bootVars>>
    \/ StopLock("stp")
    \/ StopClose("stp")
    \/ StopReturn("stp")
    \/ Cancel

SpecRec == RecInit /\ [][RecNext]_vars

\* ------------------------------- the reconciler started by the controller
BootInit ==
    /\ PSInit /\ APIIdle
    /\ rpc = "unstarted" /\ rch = 0 /\ inflight = {}
    /\ reconciled = <<>> /\ reports = <<>>
    /\ initialConfig \in {Nil, Cfg(0, "")}
    /\ isLeader \in BOOLEAN
    /\ bpc = "unstarted"
    /\ pollLeader = FALSE
    /\ storeCalls = <<>>
    /\ startErr = ""
    /\ ctl = "starting"
    /\ atStart = {}
    /\ late = {}
    /\ deferred = <<>> /\ calls = <<>>
    /\ statusInformation = Nil /\ requests = {} /\ responses = <<>>

BootNext ==
    \/ BootStart
    \/ BootIsLeader
    \/ \E res \in {"created", "already exists", "unavailable"} : BootCreate(res)
    \/ \E res \in {"found", "not found", "unavailable"} : BootGet(res)
    \/ LeaderChange
    \/ remote = <<>> /\ RemoteEdit("")
    \/ ControllerAbort
    \/ ControllerRelease
    \/ \E v \in Versions, f \in {"", "invalid"} :
          /\ ctl = "running"
          /\ v = config.rv + 1 /\ UpdateConfigCall("pub", Cfg(v, f))
          /\ UNCHANGED <<apiVars, statVars, recVars, bootVars>>
    \/ UpdateConfigLock("pub")
    \/ UpdateConfigBody("pub")
    \/ ctl = "running" /\ NotifyCall("pub") /\ UNCHANGED <<apiVars, statVars, recVars, bootVars>>
    \/ NotifyRLock("pub")
    \/ NotifyCtxDone("pub")
    \/ NotifySend("pub")
    \/ NotifySkip("pub")
    \/ NotifyReturn("pub")
    \/ RecStart
    \/ ResultChanLock("sub")
    \/ ResultChanBody("sub")
    \/ RecSubscribed
    \/ RecReceive
    \/ RecCtxDone
    \/ \E p \in inflight : RecValidate(p)
    \/ \E p \in inflight, err \in {"", "reconcile failed"} : RecReconcile(p, err)
    \/ \E p \in inflight, sink \in {"created", "create failed", "no client"} :
          RecReport(p, sink)
    \/ Cancel

SpecBoot == BootInit /\ [][BootNext]_vars

\* ------------------------------------ the controller's start from the
\* creation of the config source to its return
CtlInit ==
    /\ PSInit /\ APIIdle
    /\ rpc = "unstarted" /\ rch = 0 /\ inflight = {}
    /\ reconciled = <<>> /\ reports = <<>>
    /\ initialConfig \in {Nil, Cfg(0, "")}
    /\ isLeader \in BOOLEAN
    /\ bpc = "unstarted"
    /\ pollLeader = FALSE
    /\ storeCalls = <<>>
    /\ startErr = ""
    /\ ctl = "create"
    /\ atStart = {}
    /\ late = {}
    /\ deferred = <<"nodeComponents.Stop">>
    /\ calls = <<>>
    /\ statusInformation = Nil /\ requests = {} /\ responses = <<>>

CtlNext ==
    \/ \E ok \in BOOLEAN : NewConfigSource(ok)
    \/ \E ok \in BOOLEAN : AddComponents(ok)
    \/ \E ok \in BOOLEAN : ClusterInit(ok)
    \/ ctl = "starting" /\ BootStart
    \/ BootIsLeader
    \/ \E res \in {"created", "already exists", "unavailable"} : BootCreate(res)
    \/ \E res \in {"found", "not found", "unavailable"} : BootGet(res)
    \/ ControllerAbort
    \/ ControllerRelease
    \/ \E v \in Versions :
          /\ ctl = "running"
          /\ v = config.rv + 1 /\ UpdateConfigCall("pub", Cfg(v, ""))
          /\ UNCHANGED <<apiVars, statVars, recVars, bootVars>>
    \/ UpdateConfigLock("pub")
    \/ UpdateConfigBody("pub")
    \/ ctl = "running" /\ NotifyCall("pub") /\ UNCHANGED <<apiVars, statVars, recVars, bootVars>>
    \/ NotifyRLock("pub")
    \/ NotifyCtxDone("pub")
    \/ NotifySend("pub")
    \/ NotifySkip("pub")
    \/ NotifyReturn("pub")
    \/ RecStart
    \/ ResultChanLock("sub")
    \/ ResultChanBody("sub")
    \/ RecSubscribed
    \/ RecReceive
    \/ RecClosed
    \/ RecCtxDone
    \/ \E p \in inflight : RecValidate(p)
    \/ \E p \in inflight : RecReconcile(p, "")
    \/ \E p \in inflight : RecReport(p, "created")
    \/ ControllerShutdown
    \/ RunDeferred
    \/ StopLock("stp")
    \/ StopClose("stp")
    \/ StopReturn("stp")
    \/ ControllerReturn
    \/ Cancel

SpecCtl == CtlInit /\ [][CtlNext]_vars

\* ============================================================ staticSource
\* NewStaticSource(staticConfig): src.updateConfig(staticConfig) stores the
\* config in the embedded pub/sub.
\* NewStaticSource_Unset: the constructor leaves the config unset.
NewStaticSource_Unset(staticConfig) == Nil
NewStaticSource(staticConfig) == staticConfig

\* Start(ctx): s.notifySubscribers(ctx).  Nothing keeps a caller from calling
\* Start again once it has returned.
StaticStart ==
    /\ variant = "static" /\ wpc \in {"unstarted", "returned"}
    /\ NotifyCall("pub")
    /\ wpc' = "notifying"
    /\ atStart' = {subscribers[i] : i \in 1..Len(subscribers)}
    /\ UNCHANGED <<statVars, variant, failures, remote, bootstrapConfig, cursor,
                   lastObservedVersion,
                   retryAfter, dups, propagated>>
    /\ UNCHANGED <<initialConfig, isLeader, bpc, pollLeader, storeCalls,
                   startErr, ctl,
                   late, deferred, calls>>
    /\ UNCHANGED recVars

\* notifySubscribers has returned, and so does Start.
StaticStartReturn ==
    /\ variant = "static" /\ wpc = "notifying" /\ pc["pub"] = "idle"
    /\ wpc' = "returned"
    /\ UNCHANGED <<statVars, variant, failures, remote, bootstrapConfig, cursor,
                   lastObservedVersion,
                   retryAfter, dups, propagated, psVars>>
    /\ UNCHANGED <<recVars, bootVars>>

\* func (*staticSource) Stop() {}: the method of staticSource, which hides the
\* Stop of the embedded pub/sub, does nothing.
StaticStop ==
    /\ variant = "static"
    /\ stops < MaxStops
    /\ stops' = stops + 1
    /\ UNCHANGED <<config, subscribers, chans, nchan, mu, pc, idx, arg, ctxDone,
                   panic, published, received, closes>>
    /\ UNCHANGED <<apiVars, statVars, recVars, bootVars>>

StaticInit ==
    /\ initialConfig \in {Cfg(1, ""), Cfg(1, "static")}
    /\ config = NewStaticSource(initialConfig)
    /\ subscribers = <<>>
    /\ chans = [c \in ChanIds |-> NewChan]
    /\ nchan = 0
    /\ mu = [w |-> NoProc, readers |-> {}]
    /\ pc = [p \in Procs |-> "idle"]
    /\ idx = [p \in Procs |-> 1]
    /\ arg = [p \in Procs |-> Nil]
    /\ ctxDone = FALSE
    /\ panic = "none"
    /\ published = <<>>
    /\ received = [c \in ChanIds |-> <<>>]
    /\ closes = [c \in ChanIds |-> 0]
    /\ stops = 0
    /\ variant = "static"
    /\ remote = <<>> /\ bootstrapConfig = Nil /\ wpc = "unstarted"
    /\ cursor = 0 /\ lastObservedVersion = 0 /\ retryAfter = 0
    /\ dups = FALSE /\ propagated = "none" /\ failures = 0
    /\ rpc = "unstarted" /\ rch = 0 /\ inflight = {}
    /\ reconciled = <<>> /\ reports = <<>>
    /\ isLeader = FALSE /\ bpc = "skipped" /\ pollLeader = FALSE
    /\ storeCalls = <<>> /\ startErr = "" /\ ctl = "none" /\ atStart = {}
    /\ late = {}
    /\ deferred = <<>> /\ calls = <<>>
    /\ statusInformation = Nil /\ requests = {} /\ responses = <<>>

StaticNext ==
    \/ StaticStart
    \/ NotifyRLock("pub")
    \/ NotifyCtxDone("pub")
    \/ NotifySend("pub")
    \/ NotifySkip("pub")
    \/ NotifyReturn("pub")
    \/ StaticStartReturn
    \/ StaticStop
    \/ /\ rpc # "subscribing"
       /\ ResultChanCall("sub") /\ UNCHANGED <<apiVars, statVars, recVars, bootVars>>
    \/ ResultChanLock("sub")
    \/ ResultChanBody("sub")
    \/ \E c \in ChanIds : c # rch /\ Recv(c)
    \/ RecStart
    \/ RecSubscribed
    \/ RecReceive
    \/ RecCtxDone
    \/ \E p \in inflight : RecValidate(p)
    \/ \E p \in inflight, err \in {"", "reconcile failed"} : RecReconcile(p, err)
    \/ \E p \in inflight, sink \in {"created", "create failed", "no client"} :
          RecReport(p, sink)
    \/ Cancel

SpecStatic == StaticInit /\ [][StaticNext]_vars

\* ------------------------------------------------------- callers in progress
StepOf(p) ==
    \/ UpdateConfigLock(p) \/ UpdateConfigBody(p)
    \/ NotifyRLock(p) \/ NotifyCtxDone(p) \/ NotifySend(p) \/ NotifySkip(p)
    \/ NotifyReturn(p)
    \/ ResultChanLock(p) \/ ResultChanBody(p)
    \/ StopLock(p) \/ StopClose(p) \/ StopReturn(p)

InCall(p) == pc[p] \notin {"idle", "panicked"}
HoldsLock(q) == mu.w = q \/ q \in mu.readers

RECURSIVE IsSubseq(_, _)
IsSubseq(s, t) ==
    IF s = <<>> THEN TRUE
    ELSE IF t = <<>> THEN FALSE
    ELSE IF Head(s) = Head(t) THEN IsSubseq(Tail(s), Tail(t))
    ELSE IsSubseq(s, Tail(t))

\* What a channel's receiver has been handed so far: taken and buffered.
Delivered(c) == received[c] \o chans[c].buf

\* ------------------------------------------------------------------- C1
\* C1: every pub/sub call in progress can take its next step, or waits only
\* for the lock while a caller holding the lock can take its next step: the
\* fan-out never waits for a subscriber to drain its buffer, and publisher,
\* subscribing and stopping callers never block each other for good.
C1_CallsNeverStuck ==
    \A p \in Procs : InCall(p) =>
        \/ ENABLED StepOf(p)
        \/ /\ pc[p] \in {"uc_lock", "uc_body", "ns_rlock", "rc_lock", "rc_body",
                         "st_lock", "st_close"}
           /\ \E q \in Procs \ {p} : HoldsLock(q) /\ ENABLED StepOf(q)

\* The fan-out holds the read lock in front of a full buffer nobody drains,
\* while a Stop caller and a ResultChan caller wait for the write lock.
C1_Witness ==
    /\ pc["pub"] = "ns_loop" /\ idx["pub"] <= Len(subscribers)
    /\ ~ctxDone
    /\ Len(chans[subscribers[idx["pub"]]].buf) = ChanCap
    /\ pc["stp"] = "st_close" /\ mu.w = "stp"
    /\ pc["sub"] = "rc_lock"

\* ------------------------------------------------------------------- C2
C2_InOrder == \A c \in ChanIds : IsSubseq(Delivered(c), published)

\* The subscribers the producer's step passes over: the one the select is
\* at, and on a return from the loop every one not yet visited.
ProducerPasses(j) ==
    /\ pc["pub"] = "ns_loop" /\ j >= idx["pub"] /\ j <= Len(subscribers)
    /\ \/ pc'["pub"] # "ns_loop"
       \/ idx'["pub"] > j

GapOnlyWhenFull ==
    \A j \in 1..MaxSubs : ProducerPasses(j) =>
        LET c == subscribers[j] IN
            chans[c].buf = <<>> => chans'[c].buf = <<config>>

GapOnlyWhenFullOrCancelled ==
    \A j \in 1..MaxSubs : ProducerPasses(j) =>
        LET c == subscribers[j] IN
            (chans[c].buf = <<>> /\ ~ctxDone) => chans'[c].buf = <<config>>

\* C2 as stated: every subscriber is handed a subsequence of the published
\* values, in publish order, and a subscriber misses a pass's value only if
\* its buffer was full when the pass reached it.
C2_Original == []C2_InOrder /\ [][GapOnlyWhenFull]_vars

\* C2 (amended): every subscriber is handed a subsequence of the published
\* values, in publish order, and a subscriber misses a pass's value only if
\* its buffer was full when the pass reached it or the context passed to
\* notifySubscribers was cancelled by then.
C2_SubsequenceInOrder == []C2_InOrder /\ [][GapOnlyWhenFullOrCancelled]_vars

\* One subscriber has taken both published versions in order while a slow one
\* still holds the first and was skipped by the second pass.
C2_Witness ==
    /\ Len(published) = 2 /\ published[1] # published[2]
    /\ pc["pub"] = "idle"
    /\ \E c, d \in ChanIds :
        /\ received[c] = published
        /\ received[d] = <<>> /\ chans[d].buf = <<published[1]>>

\* ------------------------------------------------------------------- C3
Increasing(q) == \A i, j \in 1..Len(q) : i < j => q[i].rv < q[j].rv

\* C3: across watch restarts, the configs an apiConfigSource publishes and
\* the configs each subscriber is handed carry strictly increasing resource
\* versions: no version is published twice and none comes again after a
\* later one.
C3_EachVersionPublishedOnce ==
    /\ Increasing(published)
    /\ \A c \in ChanIds : Increasing(Delivered(c))

\* After a restart the watch listed a version already published (and it was
\* left out); both versions of the object have been published since.
C3_Witness ==
    /\ dups
    /\ Len(published) = 2
    /\ wpc = "watch"

\* ------------------------------------------------------------------- C4
\* C4: every published config is the observed remote config with the
\* bootstrap config laid over it: a field the bootstrap config sets carries
\* the bootstrap value, any other field the remote value.
C4_BootstrapWins ==
    \A i \in 1..Len(published) :
        LET p == published[i]
            r == remote[p.rv]
        IN  p.net = IF bootstrapConfig.net # "" THEN bootstrapConfig.net ELSE r.net

\* ------------------------------------------------------------------- C5
\* The configs the reconciler has taken off its channel and is done with.
Handled ==
    IF rch = 0 THEN {}
    ELSE {received[rch][i] : i \in 1..Len(received[rch])}
            \ {p.cfg : p \in inflight}

\* C5: Reconcile is only ever called with configs that pass validation, and
\* for every received config that fails validation the status report builds
\* a FailedReconciling event whose message is the validation error's text.
C5_ValidateBeforeReconcile ==
    /\ \A i \in 1..Len(reconciled) : ValidationError(reconciled[i]) = ""
    /\ \A i \in 1..Len(reports) :
        LET r == reports[i] IN
            ValidationError(r.cfg) # "" =>
                /\ r.event.rv = r.cfg.rv
                /\ r.event.reason = "FailedReconciling"
                /\ r.event.message = ValidationError(r.cfg)
    /\ \A cfg \in Handled :
        ValidationError(cfg) # "" => \E i \in 1..Len(reports) : reports[i].cfg = cfg

\* An invalid config went through the loop: never reconciled, and its
\* FailedReconciling event is stored by the sink.
C5_Witness ==
    /\ reconciled = <<>>
    /\ \E i \in 1..Len(Events) :
        /\ ValidationError(Events[i].cfg) # ""
        /\ Events[i].event.reason = "FailedReconciling"
        /\ Events[i].event.message = "invalid network"
        /\ Events[i].cfg \in Handled

\* ------------------------------------------------------------------- C6
\* C6: at most one reconciliation pass (validate, Reconcile, status report)
\* is under way at any time.
C6_AtMostOneInFlight == Cardinality(inflight) <= 1

\* The source has already published the next config into the reconciler's
\* buffer while the pass for the previous one is still in its Reconcile call.
C6_Witness ==
    /\ rch # 0
    /\ chans[rch].buf # <<>>
    /\ \E p \in inflight : p.stage = "reconcile" /\ p.cfg.rv < Head(chans[rch].buf).rv

\* ------------------------------------------------------------------- C7
\* C7: however often Stop is called, no channel is closed more than once and
\* no call panics with a double close.
C7_StopIdempotent ==
    /\ panic # "close of closed channel"
    /\ \A c \in ChanIds : closes[c] <= 1

\* ------------------------------------------------------------------- C8
\* C8: no value is sent on a closed channel, and a channel Stop has closed
\* never gains a value.
C8_NoSendAfterStop ==
    /\ [](panic # "send on closed channel")
    /\ [][\A c \in ChanIds :
            chans[c].closed => Len(chans'[c].buf) <= Len(chans[c].buf)]_vars

\* ------------------------------------------------------------------- C9
\* C9: the watch task has returned only if its context is done; no watch
\* error, transient or not, comes out of watch.Until, and after an error the
\* task is waiting for the delay the error callback chose.
C9_WatchNeverGivesUp ==
    /\ wpc = "exited" => ctxDone
    /\ propagated = "none"
    /\ wpc = "backoff" => retryAfter \in {ServerRetryAfter, RetryAfterSeconds}

\* The watch had started over once already (it listed the version it had
\* published), met a non-retryable error and waits its ten seconds, the
\* context still alive.
C9_Witness ==
    /\ dups
    /\ wpc = "backoff" /\ retryAfter = RetryAfterSeconds
    /\ ~ctxDone

\* ------------------------------------------------------------------- C10
\* C10: once the context is cancelled no config is stored as the current one
\* and no subscriber channel gains a value.
C10_NothingPublishedAfterCancel ==
    [][ctxDone =>
        /\ config' = config
        /\ \A c \in ChanIds : Len(chans'[c].buf) <= Len(chans[c].buf)]_vars

\* ------------------------------------------------------------------- C11
\* The startup poll has ended: Start is past it, with nil or with an error.
PollEnded == bpc \in {"succeeded", "failed"}

\* C11: the startup poll ends only by the object created, the object already
\* existing or the timeout; a create attempt failing with any other error
\* does not end it.
C11_CreateErrorIsRetried ==
    (PollEnded /\ Last(storeCalls).op = "Create") =>
        \/ bpc = "succeeded" /\ Last(storeCalls).res \in {"created", "already exists"}
        \/ bpc = "failed" /\ startErr = "timed out waiting for the condition"

\* ------------------------------------------------------------------- C12
\* C12: a node that is not the leader never ends its startup poll on a failed
\* existence check: its poll ends with the object observed, or by the timeout.
C12_ExistsErrorIsRetried ==
    (PollEnded /\ Last(storeCalls).op = "Get") =>
        \/ bpc = "succeeded" /\ Last(storeCalls).res = "found"
        \/ bpc = "failed" /\ startErr = "timed out waiting for the condition"

\* ------------------------------------------------------------------- C13
\* C13: a Create is issued only in a poll iteration in which IsLeader()
\* answered true; an iteration in which it answered false issues only a Get.
C13_OnlyLeaderCreates ==
    /\ \A i \in 1..Len(storeCalls) :
          storeCalls[i].op = "Create" <=> storeCalls[i].leader
    /\ bpc = "create" => pollLeader
    /\ bpc = "get" => ~pollLeader

\* A node that is not the leader has issued its Get while the object did not
\* exist, and has issued no Create.
C13_Witness ==
    /\ storeCalls # <<>>
    /\ \A i \in 1..Len(storeCalls) :
          storeCalls[i].op = "Get" /\ ~storeCalls[i].leader
    /\ Last(storeCalls).res = "not found"

\* ------------------------------------------------------------------- C14
\* C14: when the leader's Create answers "already exists", the poll ends with
\* success in that iteration: that call is the node's last call to the store,
\* Start returns no error and goes on to launch the reconciler loop.
C14_AlreadyExistsIsSuccess ==
    \A i \in 1..Len(storeCalls) :
        (storeCalls[i].op = "Create" /\ storeCalls[i].res = "already exists") =>
            /\ i = Len(storeCalls)
            /\ bpc = "succeeded" /\ startErr = ""
            /\ rpc # "unstarted" \/ ENABLED RecStart

\* The Create answered "already exists" and the loop is running.
C14_Witness ==
    /\ storeCalls # <<>>
    /\ Last(storeCalls).op = "Create" /\ Last(storeCalls).res = "already exists"
    /\ rpc = "loop"

\* ------------------------------------------------------------------- C15
\* C15: when the startup poll fails, Start returns an error, the reconciler
\* never subscribes to the config source, Reconcile is never called, and the
\* controller aborts its start without releasing the config.
C15_FailedStartIsFatal ==
    bpc = "failed" =>
        /\ startErr # ""
        /\ rpc = "unstarted" /\ rch = 0 /\ nchan = 0 /\ subscribers = <<>>
        /\ reconciled = <<>> /\ reports = <<>>
        /\ ctl \in {"starting", "aborted"}
        /\ config = Nil /\ published = <<>>

\* The poll failed and the controller has aborted its start.
C15_Witness == bpc = "failed" /\ ctl = "aborted" /\ storeCalls # <<>>

\* ------------------------------------------------------------------- C16
\* C16: a failed pass is not fatal: after the report of a config that failed
\* validation or whose Reconcile returned an error, the loop is still alive,
\* at its select or on its way to it, or has left on a closed channel or a
\* done context.
C16_FailuresAreNotFatal ==
    (reports # <<>> /\ Last(reports).event.reason = "FailedReconciling") =>
        rpc \in {"loop", "returned"} /\ panic = "none"

\* ------------------------------------------------------------------- C17
\* C17: a reporting sink that is unavailable, the client not obtained or the
\* event not created, never crashes the loop: the pass ends and the loop
\* goes on.
C17_ReportFailureIsSwallowed ==
    \A i \in 1..Len(reports) :
        reports[i].sink # "created" =>
            /\ panic = "none" /\ rpc # "panicked"
            /\ \A p \in inflight : p.cfg # reports[i].cfg

\* ------------------------------------------------------------------- C18
\* C18: the status reports are, in order, one for each config the loop has
\* received (the pass under way has none yet); each refers to its config's
\* resourceVersion, says SuccessfulReconcile exactly when validation passed
\* and Reconcile returned no error, and otherwise says FailedReconciling with
\* the error's text.
C18_OneReportPerConfig ==
    rch # 0 =>
        /\ Len(reports) <= Len(received[rch])
        /\ Len(received[rch]) <= Len(reports) + 1
        /\ Len(reports) < Len(received[rch]) => inflight # {}
        /\ \A i \in 1..Len(reports) :
            LET r == reports[i] IN
                /\ r.cfg = received[rch][i]
                /\ r.event.rv = r.cfg.rv
                /\ r.event.reason = "SuccessfulReconcile" <=>
                        (ValidationError(r.cfg) = "" /\ r.err = "")
                /\ r.event.reason # "SuccessfulReconcile" =>
                        /\ r.event.reason = "FailedReconciling"
                        /\ r.event.message = r.err /\ r.err # ""
                /\ ValidationError(r.cfg) # "" => r.err = ValidationError(r.cfg)

\* Two configs went through the loop, one reported as failed with Reconcile's
\* error and one as reconciled.
C18_Witness ==
    /\ Len(reports) = 2 /\ inflight = {} /\ rpc = "loop"
    /\ reports[1].event.reason = "FailedReconciling"
    /\ reports[1].event.message = "reconcile failed"
    /\ reports[2].event.reason = "SuccessfulReconcile"

\* ------------------------------------------------------------------- C19
\* Start of the static source has been called once, and has returned.
StartedOnce == variant = "static" /\ wpc = "returned" /\ Len(published) = 1

\* C19 as stated: once the one call of Start has returned, every subscriber
\* that had subscribed before Start was called has been handed exactly one
\* value, the config the source was built with.
C19_Original ==
    StartedOnce => \A c \in atStart : Delivered(c) = <<initialConfig>>

\* C19, amended: the same unless the context passed to Start is cancelled, in
\* which case a subscriber may have been handed nothing; and a static source
\* never hands out anything but the config it was built with, however often
\* Start is called.
C19_StartDeliversOnce ==
    variant = "static" =>
        /\ StartedOnce =>
              \A c \in atStart :
                  \/ Delivered(c) = <<initialConfig>>
                  \/ ctxDone /\ Delivered(c) = <<>>
        /\ \A c \in ChanIds :
              /\ Len(Delivered(c)) <= Len(published)
              /\ \A i \in 1..Len(Delivered(c)) : Delivered(c)[i] = initialConfig
        /\ \A i \in 1..Len(published) : published[i] = initialConfig

\* The one call of Start has returned with a live context, and the
\* subscriber that was there before has taken its one value.
C19_Witness ==
    /\ StartedOnce /\ ~ctxDone
    /\ \E c \in atStart : received[c] = <<initialConfig>> /\ chans[c].buf = <<>>

\* ------------------------------------------------------------------- C20
\* C20: when Stop of a static source returns, every channel of the subscriber
\* list is closed and the subscriber list is empty.
C20_StaticStopClosesSubscribers ==
    [][StaticStop =>
          /\ subscribers' = <<>>
          /\ \A i \in 1..Len(subscribers) : chans'[subscribers[i]].closed]_vars

\* ------------------------------------------------------------------- C21
\* C21: stopping the config source ends the reconciler loop: when Stop
\* returns while the loop holds its subscription, the subscription's channel
\* is closed, which the loop observes at its select and returns on.
C21_StopEndsTheLoop ==
    [][(StaticStop /\ rpc = "loop") => chans'[rch].closed]_vars

\* ------------------------------------------------------------------- C22
\* C22: latest value wins.  Whenever the producer is between two calls, no
\* Stop has been called and the context is live, a subscriber that has
\* received before and has now drained its channel holds, as the last value
\* it received, the value of the last notifySubscribers pass: were the
\* producer to stop publishing here, that subscriber's final value would be
\* the final published one.
C22_LatestValueWins ==
    \A c \in ChanIds :
        ( /\ pc["pub"] = "idle" /\ pc["stp"] = "idle" /\ stops = 0 /\ ~ctxDone
          /\ panic = "none"
          /\ received[c] # <<>> /\ chans[c].buf = <<>>
          /\ published[1] # Nil ) =>
            Last(received[c]) = Last(published)

\* ------------------------------------------------------------------- C23
\* C23: once the context passed to notifySubscribers is cancelled, no
\* subscriber is handed a value any more: no step taken with the context
\* cancelled adds to what a subscriber has been handed.
C23_CancelStopsThePass ==
    [][ctxDone => \A c \in ChanIds : Delivered(c)' = Delivered(c)]_vars

\* ------------------------------------------------------------------- C24
\* C24: however often the watch fails and starts over, a config it observes
\* is published exactly once: no resource version is published twice, and
\* once the condition is through with an observed version (the watch is
\* listing, watching, waiting to start over, or has ended) that version has
\* been published.
C24_PublishedOnceAcrossRestarts ==
    /\ \A i, j \in 1..Len(published) :
          published[i].rv = published[j].rv => i = j
    /\ \A i \in 1..Len(published) : published[i].rv <= lastObservedVersion
    /\ (wpc \in {"list", "watch", "backoff", "exited"} /\ lastObservedVersion # 0) =>
          \E i \in 1..Len(published) : published[i].rv = lastObservedVersion

\* The watch has failed at least twice and is running again; the one version
\* of the object was listed again after a failure and is published once.
C24_Witness ==
    /\ failures >= 2 /\ wpc = "watch" /\ retryAfter = 0
    /\ dups
    /\ Len(remote) = 1 /\ Len(published) = 1 /\ published[1].rv = 1

\* ------------------------------------------------------------------- C25
\* C25: a subscriber whose ResultChan call came after a Stop is never
\* notified: no notifySubscribers call made after it hands its value to that
\* subscriber's channel.
\* The values of the notifySubscribers calls made after a late ResultChan call
\* and of none made before it.
LaterValues(l) ==
    {published[i] : i \in (l.passes + 1)..Len(published)}
        \ {published[i] : i \in 1..l.passes}

C25_LateSubscriberNeverNotified ==
    \A l \in late :
        \A k \in 1..Len(Delivered(l.ch)) : Delivered(l.ch)[k] \notin LaterValues(l)

\* ------------------------------------------------------------------- C26
\* C26: the pub/sub's current value is absent until the first updateConfig
\* and is otherwise the argument of the most recent updateConfig call; only
\* the store of updateConfig changes it, so notifySubscribers, ResultChan
\* and Stop leave it alone and it is never cleared or rolled back.
C26_CurrentIsLastStored ==
    /\ [](pc["pub"] \notin {"uc_lock", "uc_body"} => config = arg["pub"])
    /\ [][config' # config =>
             /\ pc["pub"] = "uc_body" /\ pc'["pub"] = "idle"
             /\ config' = arg["pub"]
             /\ config' # Nil /\ config'.rv > config.rv]_vars

\* Two configs were stored; a pass, a subscription and a Stop later the
\* current value is still the second.
C26_Witness ==
    /\ config = Cfg(2, "")
    /\ stops > 0 /\ nchan > 0 /\ Len(published) = 2
    /\ \A p \in Procs : pc[p] = "idle"

\* ------------------------------------------------------------------- C27
\* C27: for an event with a new resource version the source first sets
\* lastObservedVersion, then stores the config, then notifies, once: while
\* the condition is at work the version is already set, a pass under way
\* carries the config just stored, nothing of that version was published
\* before the store, and the published versions strictly increase.
C27_ObserveStoreNotify ==
    /\ wpc \in {"updating", "notifying", "sending"} =>
          lastObservedVersion = arg["pub"].rv
    /\ wpc = "updating" =>
          \A i \in 1..Len(published) : published[i].rv < lastObservedVersion
    /\ wpc = "notifying" =>
          /\ config = arg["pub"]
          /\ published # <<>> /\ Last(published) = config
    /\ \A i \in 1..Len(published) :
          /\ published[i].rv \in 1..lastObservedVersion
          /\ i > 1 => published[i - 1].rv < published[i].rv

\* Versions 1 and 2 were observed, one of them twice: two publications,
\* carrying 1 then 2, and 2 is the current value.
C27_Witness ==
    /\ variant = "pubsub" /\ dups /\ wpc = "watch"
    /\ Len(published) = 2 /\ published[1].rv = 1 /\ published[2].rv = 2
    /\ lastObservedVersion = 2 /\ config.rv = 2

\* ------------------------------------------------------------------- C28
\* The watch hands the condition an event whose resource version is the last
\* observed one.
DuplicateEvent ==
    \/ WatchList /\ remote # <<>> /\ Last(remote).rv = lastObservedVersion
    \/ WatchEvent /\ remote[cursor + 1].rv = lastObservedVersion

\* C28: an event with the last observed version changes nothing: the
\* condition returns with lastObservedVersion, the current value, the
\* subscriber list and every channel as they were, and with no publication
\* begun.
C28_DuplicateChangesNothing ==
    [][DuplicateEvent =>
          /\ wpc' = "watch"
          /\ UNCHANGED <<lastObservedVersion, psVars>>]_vars

\* A duplicate came while a subscriber still had the published config in its
\* buffer.
C28_Witness ==
    /\ dups /\ wpc = "watch" /\ Len(published) = 1
    /\ \E c \in ChanIds : chans[c].buf = <<published[1]>>

\* ------------------------------------------------------------------- C29
\* A step of an updateConfig call of the producer.
UpdateConfigStep ==
    \/ \E v \in Versions : UpdateConfigCall("pub", Cfg(v, ""))
    \/ UpdateConfigLock("pub")
    \/ UpdateConfigBody("pub")

\* C29: updateConfig changes the stored value and nothing else of the
\* pub/sub: no step of it changes the subscriber list or any channel, and a
\* subscriber is handed a value only by a step of a notifySubscribers pass.
C29_UpdateOnlyStores ==
    /\ [][UpdateConfigStep =>
             UNCHANGED <<subscribers, chans, nchan, received, published>>]_vars
    /\ [][(\E c \in ChanIds : Delivered(c)' # Delivered(c)) =>
             pc["pub"] = "ns_loop"]_vars

\* A config is stored while a subscriber is there, and no pass has been made:
\* the subscriber has been handed nothing.
C29_Witness ==
    /\ config = Cfg(1, "") /\ pc["pub"] = "idle"
    /\ subscribers # <<>> /\ published = <<>>
    /\ \A c \in ChanIds : Delivered(c) = <<>>

\* ------------------------------------------------------------------- C30
\* The producer's step passes over subscriber j: what becomes of its buffer.
\* A full buffer is left as it is; an empty one takes the current value,
\* always (as stated) or unless the context is cancelled (amended).
PassIsolated(always) ==
    \A j \in 1..MaxSubs : ProducerPasses(j) =>
        LET c == subscribers[j] IN
            /\ chans[c].buf # <<>> => chans'[c].buf = chans[c].buf
            /\ (chans[c].buf = <<>> /\ (always \/ ~ctxDone)) =>
                  chans'[c].buf = <<config>>

\* C30 as stated: within a pass a subscriber with a full buffer keeps its
\* value and is skipped, and every other subscriber, whose buffer is empty,
\* takes the current value in that pass, wherever it is in the list.
C30_Original == [][PassIsolated(TRUE)]_vars

\* C30, amended: the same as long as the context passed to notifySubscribers
\* is not cancelled; once it is, the subscribers not yet visited may be left
\* without the value.
C30_SubscribersIsolated == [][PassIsolated(FALSE)]_vars

\* The first subscriber of the list was skipped with its stale value still
\* buffered, and the second took the value of the same pass.
C30_Witness ==
    /\ Len(subscribers) = 2 /\ Len(published) = 2 /\ pc["pub"] = "idle"
    /\ published[1] # published[2]
    /\ chans[subscribers[1]].buf = <<published[1]>>
    /\ chans[subscribers[2]].buf = <<published[2]>>

\* ------------------------------------------------------------------- C31
\* A step of a ResultChan call of the subscribing caller.
ResultChanStep ==
    \/ ResultChanCall("sub")
    \/ ResultChanLock("sub")
    \/ ResultChanBody("sub")

\* The values notifySubscribers calls found current.
NotifiedValues == {published[i] : i \in 1..Len(published)}

\* C31: a ResultChan call appends one channel, new, empty and open, to the
\* subscribers, and leaves the current value and the channels already there
\* as they were; and at any time a subscriber's channel holds at most one
\* value, which some notifySubscribers call found current.
C31_ResultChanAddsOne ==
    /\ [](\A i \in 1..Len(subscribers) :
             LET c == subscribers[i] IN
                 /\ Len(chans[c].buf) <= 1
                 /\ \A k \in 1..Len(chans[c].buf) :
                        chans[c].buf[k] \in NotifiedValues)
    /\ [][ResultChanStep =>
             /\ config' = config
             /\ UNCHANGED <<received, published>>
             /\ \A c \in 1..nchan : chans'[c] = chans[c]]_vars
    /\ [][ResultChanBody("sub") =>
             /\ subscribers' = Append(subscribers, arg["sub"])
             /\ \A i \in 1..Len(subscribers) : subscribers[i] # arg["sub"]
             /\ chans'[arg["sub"]] = [buf |-> <<>>, closed |-> FALSE]]_vars
    /\ [][~ResultChanBody("sub") =>
             Len(subscribers') <= Len(subscribers)]_vars

\* A second channel was subscribed after the first took a value: the first
\* still holds it and the new one is empty.
C31_Witness ==
    /\ subscribers = <<1, 2>> /\ pc["sub"] = "idle" /\ pc["pub"] = "idle"
    /\ ~ctxDone /\ Len(published) = 1 /\ published[1] # Nil
    /\ chans[1].buf = <<published[1]>> /\ chans[2].buf = <<>>

\* ------------------------------------------------------------------- C32
\* A step of a Start call of the static source.
StaticStartStep ==
    \/ StaticStart
    \/ NotifyRLock("pub") \/ NotifyCtxDone("pub") \/ NotifySend("pub")
    \/ NotifySkip("pub") \/ NotifyReturn("pub")
    \/ StaticStartReturn

\* C32: however often Start of a static source is called, every value a
\* subscriber has taken or has in its buffer is the static config, no
\* channel is closed, and no step of Start changes the subscribers.
C32_RepeatedStartHarmless ==
    /\ [](variant = "static" =>
            \A c \in ChanIds :
                /\ \A k \in 1..Len(Delivered(c)) :
                       Delivered(c)[k] = initialConfig
                /\ ~chans[c].closed /\ closes[c] = 0)
    /\ [][StaticStartStep => subscribers' = subscribers]_vars

\* Start was called twice and has returned twice; a subscriber took the
\* config of the first call and holds that of the second.
C32_Witness ==
    /\ variant = "static" /\ wpc = "returned" /\ Len(published) = 2
    /\ \E c \in ChanIds :
          /\ received[c] = <<initialConfig>>
          /\ chans[c].buf = <<initialConfig>>

\* ------------------------------------------------------------------- C33
\* C33: when the released config source makes a pass over its subscribers,
\* the reconciler's subscription is among them, whichever way the
\* reconciler's goroutine and the controller's release interleave.
C33_SubscribedBeforeFirstPass ==
    (ctl = "running" /\ pc["pub"] = "ns_loop") =>
        \E i \in 1..Len(subscribers) : subscribers[i] = nchan

\* ------------------------------------------------------------------- C34
\* The watch task is inside its condition function, handling an event.
HandlingEvent == wpc \in {"updating", "notifying", "sending"}

\* A step of the watch task inside its condition function.
ConditionStep ==
    \/ ConditionNotify \/ ConditionReturn \/ ConditionSend
    \/ StepOf("pub")

\* C34: the watch task handling an event is never held up by a subscriber
\* that does not receive: as long as no other caller is inside the pub/sub,
\* the task has a step to take, back towards waiting on the watch.
C34_NeverBlocksOnSubscriber ==
    (/\ HandlingEvent /\ panic = "none"
     /\ \A q \in Procs \ {"pub"} : ~InCall(q)) => ENABLED ConditionStep

\* ------------------------------------------------------------------- C35
\* The controller's start has made the call fn with the outcome ok.
Called(fn, ok) == \E i \in 1..Len(calls) : calls[i] = Call(fn, ok)

\* C35: the config source is released only after clusterComponents.Init and
\* clusterComponents.Start, the reconciler's Start included, have succeeded,
\* in that order; and after a failed Init or Start it is never released and
\* no config is published or handed to a subscriber.
C35_ReleasedAfterComponentsStarted ==
    /\ (Called("configSource.Release", TRUE) \/ published # <<>>) =>
          /\ bpc \in {"skipped", "succeeded"} /\ startErr = ""
          /\ \E i, j, k \in 1..Len(calls) :
                /\ i < j /\ j < k
                /\ calls[i] = Call("clusterComponents.Init", TRUE)
                /\ calls[j] = Call("clusterComponents.Start", TRUE)
                /\ calls[k] = Call("configSource.Release", TRUE)
    /\ (Called("clusterComponents.Init", FALSE)
           \/ Called("clusterComponents.Start", FALSE)) =>
          /\ ~Called("configSource.Release", TRUE)
          /\ published = <<>> /\ config = Nil
          /\ \A c \in ChanIds : Delivered(c) = <<>>

\* The seed config was stored, the components started, the source released,
\* and a config it published has reached the reconciler.
C35_Witness ==
    /\ ctl = "running" /\ bpc = "succeeded"
    /\ Called("configSource.Release", TRUE)
    /\ reconciled # <<>>

\* ------------------------------------------------------------------- C36
\* C36: a reconciler without an initial config never enters the poll: its
\* Start asks the elector nothing, makes no Create and no Get, returns no
\* error, and once called has its goroutine ready to launch.
C36_NoSeedNoStoreCalls ==
    initialConfig = Nil =>
        /\ bpc \in {"unstarted", "skipped"}
        /\ storeCalls = <<>>
        /\ startErr = ""
        /\ (bpc = "skipped" /\ rpc = "unstarted") => ENABLED RecStart

\* Start was called without an initial config, and its loop has reconciled a
\* config.
C36_Witness ==
    /\ initialConfig = Nil /\ bpc = "skipped"
    /\ rpc = "loop" /\ reconciled # <<>>

\* ------------------------------------------------------------------- C37
\* How many times the controller's start has called the source's Stop.
SourceStops ==
    Cardinality({i \in 1..Len(calls) : calls[i].fn = "configSource.Stop"})

\* C37: once the config source is created, start calls its Stop exactly once
\* on whichever path it returns, never twice; and on a shutdown after the
\* release the call comes after clusterComponents.Stop and before
\* nodeComponents.Stop.
C37_SourceStoppedOnce ==
    /\ SourceStops <= 1
    /\ ~Called("NewConfigSource", TRUE) => SourceStops = 0
    /\ (ctl = "returned" /\ Called("NewConfigSource", TRUE)) => SourceStops = 1
    /\ (ctl = "returned" /\ Called("configSource.Release", TRUE)) =>
          \E i, j, k \in 1..Len(calls) :
              /\ i < j /\ j < k
              /\ calls[i].fn = "clusterComponents.Stop"
              /\ calls[j].fn = "configSource.Stop"
              /\ calls[k].fn = "nodeComponents.Stop"

\* The controller was shut down after the release: start has returned and
\* the source's Stop has closed the reconciler's channel.
C37_Witness ==
    /\ ctl = "returned" /\ Called("configSource.Release", TRUE)
    /\ SourceStops = 1 /\ stops = 1
    /\ rch # 0 /\ chans[rch].closed

\* ========================================================= status.Status
StatusOK == 200                   \* the status of a response written without WriteHeader
StatusServiceUnavailable == 503   \* http.StatusServiceUnavailable

\* Reconcile writes StatusInformation.ClusterConfig in the goroutine of its
\* caller and ServeHTTP reads it in the goroutine of the request, with no lock
\* and no other synchronisation between them: a read may observe the initial
\* nil or any value written so far.
Observable == {Nil} \cup {reconciled[i] : i \in 1..Len(reconciled)}

\* Reconcile(_, clusterConfig): s.StatusInformation.ClusterConfig = clusterConfig.
StatusReconcile(cfg) ==
    /\ Len(reconciled) < MaxPub
    /\ cfg.rv = Len(reconciled) + 1
    /\ statusInformation' = cfg
    /\ reconciled' = Append(reconciled, cfg)
    /\ UNCHANGED <<requests, responses>>
    /\ UNCHANGED <<psVars, apiVars, rpc, rch, inflight, reports, bootVars>>

\* The HTTP server hands a /status request to ServeHTTP in a goroutine of
\* its own; at is the number of Reconcile calls that have returned by then.
RequestArrives ==
    /\ Cardinality(requests) + Len(responses) < MaxRequests
    /\ requests' = requests \cup
          {[id |-> Cardinality(requests) + Len(responses) + 1,
            at |-> Len(reconciled), line |-> "check"]}
    /\ UNCHANGED <<statusInformation, responses>>
    /\ UNCHANGED <<psVars, apiVars, recVars, bootVars>>

Respond(r, code, cfg) ==
    /\ responses' = Append(responses,
          [at |-> r.at, end |-> Len(reconciled), code |-> code, cfg |-> cfg])
    /\ requests' = requests \ {r}

\* if sh.Status.StatusInformation.ClusterConfig == nil: 503 and return.
ServeCheck(r, seen) ==
    /\ r \in requests /\ r.line = "check"
    /\ seen \in Observable
    /\ IF seen = Nil
          THEN Respond(r, StatusServiceUnavailable, Nil)
          ELSE /\ requests' = (requests \ {r}) \cup {[r EXCEPT !.line = "status"]}
               /\ UNCHANGED responses
    /\ UNCHANGED statusInformation
    /\ UNCHANGED <<psVars, apiVars, recVars, bootVars>>

\* statusInfo := sh.getCurrentStatus(...), which reads StatusInformation
\* again, and the JSON of it written with status 200.
ServeStatus(r, seen) ==
    /\ r \in requests /\ r.line = "status"
    /\ seen \in Observable
    /\ Respond(r, StatusOK, seen)
    /\ UNCHANGED statusInformation
    /\ UNCHANGED <<psVars, apiVars, recVars, bootVars>>

StatusInit == PSInit /\ APIIdle /\ RecIdle

StatusNext ==
    \/ \E v \in Versions, f \in {"", "remote"} : StatusReconcile(Cfg(v, f))
    \/ RequestArrives
    \/ \E r \in requests, seen \in Observable : ServeCheck(r, seen)
    \/ \E r \in requests, seen \in Observable : ServeStatus(r, seen)

SpecStatus == StatusInit /\ [][StatusNext]_vars

\* ------------------------------------------------------------------- C38
\* C38: a /status request answered before any Reconcile call gets 503; a
\* request that arrives after a Reconcile call gets 200, never 503, and the
\* ClusterConfig it reports is the one most recently reconciled at some
\* moment while it was served.
C38_UnavailableUntilReconciled ==
    \A i \in 1..Len(responses) :
        LET r == responses[i] IN
            /\ r.end = 0 => r.code = StatusServiceUnavailable
            /\ r.at > 0 =>
                  /\ r.code = StatusOK
                  /\ \E k \in r.at..r.end : r.cfg = reconciled[k]

====
